---- MODULE Spec2Model ----
(***************************************************************************)
(* A model of the aRPC server core: the frame codec (parseFramedRequest,   *)
(* frameResponse), the dispatch loop Server.Start, and the address         *)
(* resolver Resolver.ResolveUDPTarget.                                     *)
(*                                                                         *)
(* Byte strings are sequences of numbers 0..255.  A Go slice is modelled   *)
(* with its backing array: [arr |-> bytes up to cap, len |-> length].      *)
(***************************************************************************)
EXTENDS Integers, Sequences, FiniteSets, TLC

VARIABLES
  \* ---- the frame codec on its own (SpecFrame)
  fpc,        \* "frame" | "roundtrip" | "parse" | "parsed" | "idle"
  fin,        \* the arguments of frameResponse
  fbuf,       \* the slice handed to parseFramedRequest
  fout,       \* what parseFramedRequest did
  \* ---- Server (Spec): fields of the Server object
  services,   \* s.services: service name -> set of method names
  \* ---- the transport under the server
  network,    \* datagrams sent towards the server (may be delivered again)
  nextID,     \* the next rpc id a client allocates
  reasm,      \* reassembly buffers, keyed by <<peer, rpc id>>
  seenIDs,    \* rpc ids already delivered upward
  \* ---- Server.Start: position and locals of the loop body
  pc,
  data, addr, rpcID,
  serviceName, methodName, reqHeaderBytes,
  rpcReq,       \* its Payload holds reqPayloadBytes
  ctx,          \* its incoming bag is md
  rpcResp,      \* its Result holds resp
  respPayloadBytes, respHeaderBytes, framedResp,
  \* ---- observation
  events,       \* what the current (or last) loop iteration did, in order
  handlerCalls, \* per rpc id, how often a method handler was invoked
  newCtx,       \* the context the handler returned for this request
  sendCalls,    \* whom transport.Send was called for: [addr, rpcID]
  delivered,    \* the requests handed to the dispatcher: [addr, rpcID]
  \* ---- Resolver.ResolveUDPTarget (SpecResolve)
  rpc,          \* "call" | "done" | "idle"
  raddr,        \* the argument addr, a string
  rresult,      \* what the call returned
  rlookups,     \* the calls of net.LookupIP, in order: host, and what it returned
  rpicks        \* the calls of balancer.Pick, in order: host, ips, and what it returned

frameVars == <<fpc, fin, fbuf, fout>>
transportVars == <<network, nextID, reasm, seenIDs>>
locals == <<data, addr, rpcID, serviceName, methodName, reqHeaderBytes, rpcReq,
            ctx, rpcResp, respPayloadBytes, respHeaderBytes, framedResp>>
obsVars == <<events, handlerCalls, newCtx, sendCalls, delivered>>
serverVars == <<services, transportVars, pc, locals, obsVars>>
resolverVars == <<rpc, raddr, rresult, rlookups, rpicks>>
vars == <<frameVars, serverVars, resolverVars>>

-----------------------------------------------------------------------------
(* Bounds of the model *)

\* longest short field (service, method, headers, payload) drawn as an input
MaxFieldLen == 1
\* longest raw buffer handed to parseFramedRequest directly
MaxRawLen == 3
\* spare capacity a slice may have behind its length
MaxSlack == 1
\* number of calls the clients make in a run
MaxCalls == 2
\* longest digit string drawn as a port
MaxPortDigits == 5
\* payload bytes that fit one datagram (MAX_PAYLOAD, scaled down)
MaxPayload == 16
\* number of interceptors registered at construction
NumElements == 3

-----------------------------------------------------------------------------
(* encoding/binary, 16-bit little endian *)

\* the number of values of a uint16
U16 == 65536

\* uint16(len(x)): the conversion keeps the low 16 bits
ToUint16(n) == n % U16

\* binary.Write(buf, binary.LittleEndian, uint16(v))
PutUint16(v) == <<v % 256, v \div 256>>

\* binary.LittleEndian.Uint16(b): reads b[0] and b[1]
Uint16(b) == b[1] + 256 * b[2]

-----------------------------------------------------------------------------
(* Go slices *)

MkSlice(bytes, slack) == [arr |-> bytes \o slack, len |-> Len(bytes)]
Cap(s) == Len(s.arr)
Bytes(s) == SubSeq(s.arr, 1, s.len)
\* a nil slice
NoSlice == MkSlice(<<>>, <<>>)
\* the spare bytes a slice may have behind its length
Slacks == UNION {[1..n -> {0}] : n \in 0..MaxSlack}

\* data[off:] is legal iff off <= len(data)
ResliceOK(s, off) == off <= s.len
\* data[lo:hi] is legal iff lo <= hi <= cap(data)
SliceOK(s, lo, hi) == lo <= hi /\ hi <= Cap(s)
SliceOf(s, lo, hi) == SubSeq(s.arr, lo + 1, hi)

\* int(binary.LittleEndian.Uint16(data[off:])): -1 stands for the run-time
\* panic (data[off:] out of range, or fewer than two bytes left)
ReadLen(s, off) ==
  IF ~ResliceOK(s, off) \/ s.len - off < 2
  THEN -1
  ELSE Uint16(SubSeq(s.arr, off + 1, off + 2))

-----------------------------------------------------------------------------
(* parseFramedRequest *)

ParsePanic == [kind |-> "panic"]

parseFramedRequest(d) ==
  LET serviceLen == ReadLen(d, 0)
      o1 == 2
      o2 == o1 + serviceLen
      methodLen == ReadLen(d, o2)
      o3 == o2 + 2
      o4 == o3 + methodLen
      headerLen == ReadLen(d, o4)
      o5 == o4 + 2
      o6 == o5 + headerLen
  IN  IF serviceLen < 0 THEN ParsePanic
      ELSE IF ~SliceOK(d, o1, o2) THEN ParsePanic
      ELSE IF methodLen < 0 THEN ParsePanic
      ELSE IF ~SliceOK(d, o3, o4) THEN ParsePanic
      ELSE IF headerLen < 0 THEN ParsePanic
      ELSE IF ~SliceOK(d, o5, o6) THEN ParsePanic
      ELSE IF ~ResliceOK(d, o6) THEN ParsePanic
      ELSE [kind |-> "ok",
            service |-> SliceOf(d, o1, o2),
            method |-> SliceOf(d, o3, o4),
            headers |-> SliceOf(d, o5, o6),
            payload |-> SubSeq(d.arr, o6 + 1, d.len)]

-----------------------------------------------------------------------------
(* frameResponse *)

\* frameResponse writing its length prefixes big-endian
PutUint16BE(v) == <<v \div 256, v % 256>>
frameResponse_BigEndian(service, method, headers, payload) ==
  PutUint16BE(ToUint16(Len(service))) \o service
    \o PutUint16BE(ToUint16(Len(method))) \o method
    \o PutUint16BE(ToUint16(Len(headers))) \o headers
    \o payload

frameResponse(service, method, headers, payload) ==
  PutUint16(ToUint16(Len(service))) \o service
    \o PutUint16(ToUint16(Len(method))) \o method
    \o PutUint16(ToUint16(Len(headers))) \o headers
    \o payload

-----------------------------------------------------------------------------
(* Metadata: a bag maps a key to the list of its values.  The codec is the *)
(* length-prefixed layout: u16 num_keys, then per key u16 key_len, key,    *)
(* u16 num_values, then per value u16 val_len, val.                        *)

EmptyMD == <<>>

EncodeStr(s) == PutUint16(ToUint16(Len(s))) \o s

RECURSIVE EncodeValues(_)
EncodeValues(vs) ==
  IF vs = <<>> THEN <<>> ELSE EncodeStr(Head(vs)) \o EncodeValues(Tail(vs))

RECURSIVE EncodeKeys(_, _)
EncodeKeys(md, ks) ==
  IF ks = {} THEN <<>>
  ELSE LET k == CHOOSE x \in ks : TRUE
       IN  EncodeStr(k) \o PutUint16(ToUint16(Len(md[k]))) \o EncodeValues(md[k])
             \o EncodeKeys(md, ks \ {k})

EncodeHeaders(md) ==
  PutUint16(ToUint16(Cardinality(DOMAIN md))) \o EncodeKeys(md, DOMAIN md)

\* a u16 at offset off of b, or -1 when it runs past the end
RdU16(b, off) == IF off + 2 <= Len(b) THEN Uint16(SubSeq(b, off + 1, off + 2)) ELSE -1

\* a length-prefixed string at offset off
RdStr(b, off) ==
  LET n == RdU16(b, off)
  IN  IF n < 0 \/ off + 2 + n > Len(b)
      THEN [ok |-> FALSE]
      ELSE [ok |-> TRUE, s |-> SubSeq(b, off + 3, off + 2 + n), off |-> off + 2 + n]

RECURSIVE DecodeValues(_, _, _, _)
DecodeValues(b, off, n, acc) ==
  IF n = 0 THEN [ok |-> TRUE, vals |-> acc, off |-> off]
  ELSE LET v == RdStr(b, off)
       IN  IF ~v.ok THEN [ok |-> FALSE]
           ELSE DecodeValues(b, v.off, n - 1, Append(acc, v.s))

RECURSIVE DecodeKeys(_, _, _, _)
DecodeKeys(b, off, n, acc) ==
  IF n = 0 THEN [ok |-> TRUE, md |-> acc]
  ELSE LET k == RdStr(b, off)
       IN  IF ~k.ok THEN [ok |-> FALSE]
           ELSE LET nv == RdU16(b, k.off)
                IN  IF nv < 0 THEN [ok |-> FALSE]
                    ELSE LET vs == DecodeValues(b, k.off + 2, nv, <<>>)
                         IN  IF ~vs.ok THEN [ok |-> FALSE]
                             ELSE DecodeKeys(b, vs.off, n - 1, (k.s :> vs.vals) @@ acc)

DecodeHeaders(b) ==
  LET n == RdU16(b, 0)
  IN  IF n < 0 THEN [ok |-> FALSE] ELSE DecodeKeys(b, 2, n, EmptyMD)

\* context.Background(), metadata.NewIncomingContext, metadata.FromOutgoingContext
BackgroundCtx == [incoming |-> EmptyMD, outgoing |-> EmptyMD]
NewIncomingContext(c, md) == [c EXCEPT !.incoming = md]
FromOutgoingContext(c) == c.outgoing

-----------------------------------------------------------------------------
(* The serializer: application values are small numbers, one byte each;   *)
(* NoEncoding is a value the serializer cannot marshal.                   *)

NoEncoding == 255
Marshal(v) == IF v = NoEncoding THEN [ok |-> FALSE] ELSE [ok |-> TRUE, bytes |-> <<v>>]

-----------------------------------------------------------------------------
(* Names, registry entries, and what the clients send *)

SvcEcho == <<69>>
SvcNope == <<78>>
MSay == <<83>>
MBark == <<66>>

\* the descriptors RegisterService may be given
ServiceDescs == {[ServiceName |-> SvcEcho, Methods |-> {MSay}],
                 [ServiceName |-> SvcEcho, Methods |-> {MBark}]}

Peers == {"10.0.0.1:5001", "10.0.0.2:5002"}
RpcIDs == 1..MaxCalls

MDa == (<<107>> :> << <<1>>, <<2>> >>)
MDb == (<<118>> :> << <<3>> >>)

\* frames a client sends: a well-formed Echo.Say with metadata, one whose
\* header bytes do not decode, and a buffer whose service length runs past
\* its end.  (Whether Echo or Say is registered depends on the registry.)
ClientFrames ==
  { frameResponse(SvcEcho, MSay, EncodeHeaders(MDa), <<7>>),
    frameResponse(SvcEcho, MSay, <<1, 0>>, <<7>>),
    <<9, 0, 69>> }

-----------------------------------------------------------------------------
(* Transport: fragmentation, reassembly, duplicate suppression *)

Min(a, b) == IF a < b THEN a ELSE b

NumPackets(n) == (n + MaxPayload - 1) \div MaxPayload

Fragments(peer, id, bytes) ==
  { [peer |-> peer, id |-> id, total |-> NumPackets(Len(bytes)), seq |-> i,
     payload |-> SubSeq(bytes, i * MaxPayload + 1, Min((i + 1) * MaxPayload, Len(bytes)))]
    : i \in 0..(NumPackets(Len(bytes)) - 1) }

RECURSIVE Concat(_, _, _)
Concat(received, i, total) ==
  IF i = total THEN <<>> ELSE received[i] \o Concat(received, i + 1, total)

NoBuffers == <<>>
DropKey(f, k) == [x \in DOMAIN f \ {k} |-> f[x]]

\* TransportReceive without the seen-ID check: every complete fragment set
\* is delivered
TransportReceive_NoDedup(pkt, bufs, seen) ==
  LET key == <<pkt.peer, pkt.id>>
      buf == IF key \in DOMAIN bufs THEN bufs[key]
             ELSE [total |-> pkt.total, received |-> <<>>]
      rec == (pkt.seq :> pkt.payload) @@ buf.received
  IN  IF buf.total # pkt.total
      THEN [kind |-> "pending", dup |-> FALSE, bufs |-> bufs, seen |-> seen]
      ELSE IF Cardinality(DOMAIN rec) < buf.total
      THEN [kind |-> "pending", dup |-> FALSE,
            bufs |-> (key :> [total |-> buf.total, received |-> rec]) @@ bufs,
            seen |-> seen]
      ELSE [kind |-> "data", dup |-> FALSE, bufs |-> DropKey(bufs, key),
            seen |-> seen \cup {pkt.id},
            bytes |-> Concat(rec, 0, buf.total)]

\* The inbound path on one decoded packet: what Receive returns ("pending":
\* no data, no error) and the transport's state after it.
TransportReceive(pkt, bufs, seen) ==
  LET key == <<pkt.peer, pkt.id>>
      buf == IF key \in DOMAIN bufs THEN bufs[key]
             ELSE [total |-> pkt.total, received |-> <<>>]
      rec == (pkt.seq :> pkt.payload) @@ buf.received
  IN  IF buf.total # pkt.total
      THEN [kind |-> "pending", dup |-> FALSE, bufs |-> bufs, seen |-> seen]
      ELSE IF Cardinality(DOMAIN rec) < buf.total
      THEN [kind |-> "pending", dup |-> FALSE,
            bufs |-> (key :> [total |-> buf.total, received |-> rec]) @@ bufs,
            seen |-> seen]
      ELSE IF pkt.id \in seen
      THEN [kind |-> "pending", dup |-> TRUE, bufs |-> DropKey(bufs, key), seen |-> seen]
      ELSE [kind |-> "data", dup |-> FALSE, bufs |-> DropKey(bufs, key),
            seen |-> seen \cup {pkt.id},
            bytes |-> Concat(rec, 0, buf.total)]

-----------------------------------------------------------------------------
(* The interceptor chain: NumElements interceptors, requests in            *)
(* registration order, responses in reverse order, stopping at the first   *)
(* error.  An interceptor may rewrite the envelope's names.                *)

Elements == 1..NumElements

ReqTrace(k) == [i \in 1..k |-> <<"request", i>>]
RespTrace(k) == [j \in 1..(NumElements - k + 1) |-> <<"response", NumElements - j + 1>>]

Rewrites(req) ==
  {req, [req EXCEPT !.ServiceName = SvcNope], [req EXCEPT !.Method = MBark]}

\* the possible results of ProcessRequest(ctx, req)
ProcessRequest(req) ==
  { [err |-> TRUE, req |-> req, trace |-> ReqTrace(k)] : k \in Elements }
    \cup { [err |-> FALSE, req |-> r, trace |-> ReqTrace(NumElements)] : r \in Rewrites(req) }

\* the possible results of ProcessResponse(ctx, resp)
ProcessResponse(resp) ==
  { [err |-> TRUE, resp |-> resp, trace |-> RespTrace(k)] : k \in Elements }
    \cup { [err |-> FALSE, resp |-> resp, trace |-> RespTrace(1)] }

-----------------------------------------------------------------------------
(* Method handlers: any handler, seen by what it returns *)

OutMDs == {EmptyMD, MDb}
RespValues == {7, NoEncoding}

HandlerResults(c) ==
  { [err |-> TRUE, resp |-> 0, newCtx |-> c] }
    \cup { [err |-> FALSE, resp |-> v, newCtx |-> [c EXCEPT !.outgoing = m]]
           : v \in RespValues, m \in OutMDs }

-----------------------------------------------------------------------------
(* Server: NewServer, RegisterService, Start *)

NilReq == [ID |-> 0, ServiceName |-> <<>>, Method |-> <<>>, Payload |-> <<>>]
NilResp == [Result |-> 0, Error |-> FALSE]

NilLocals ==
  /\ data = <<>> /\ addr = "" /\ rpcID = 0
  /\ serviceName = <<>> /\ methodName = <<>> /\ reqHeaderBytes = <<>>
  /\ rpcReq = NilReq /\ ctx = BackgroundCtx /\ rpcResp = NilResp
  /\ respPayloadBytes = <<>> /\ respHeaderBytes = <<>> /\ framedResp = <<>>

\* NewServer: an empty registry, the transport bound, nothing received
ServerInit ==
  /\ services = <<>>
  /\ network = {} /\ nextID = 1 /\ reasm = NoBuffers /\ seenIDs = {}
  /\ pc = "SETUP"
  /\ NilLocals
  /\ events = <<>>
  /\ handlerCalls = [i \in RpcIDs |-> 0]
  /\ newCtx = BackgroundCtx
  /\ sendCalls = {} /\ delivered = {}

\* `continue`: the locals of the loop body go out of scope
Continue ==
  /\ pc' = "RECEIVE"
  /\ data' = <<>> /\ addr' = "" /\ rpcID' = 0
  /\ serviceName' = <<>> /\ methodName' = <<>> /\ reqHeaderBytes' = <<>>
  /\ rpcReq' = NilReq /\ ctx' = BackgroundCtx /\ rpcResp' = NilResp
  /\ respPayloadBytes' = <<>> /\ respHeaderBytes' = <<>> /\ framedResp' = <<>>
  /\ newCtx' = BackgroundCtx

\* an entry of `events`: a line the server logs or a call it makes.  The
\* second component is the rpc id ("received", "duplicate"), the position of
\* the interceptor ("request", "response"), and 0 otherwise.
Ev(what) == <<what, 0>>

\* s.services[desc.ServiceName] = desc
RegisterService(desc) ==
  /\ pc = "SETUP"
  /\ services' = (desc.ServiceName :> desc.Methods) @@ services
  /\ UNCHANGED <<frameVars, resolverVars, transportVars, pc, locals, obsVars>>

\* Start is called: the loop is entered
StartServer ==
  /\ pc = "SETUP"
  /\ pc' = "RECEIVE"
  /\ UNCHANGED <<frameVars, resolverVars, services, transportVars, locals, obsVars>>

\* a client call: the next rpc id (ids of different clients do not
\* collide), the frame fragmented into datagrams
ClientCall(peer, frame) ==
  /\ nextID <= MaxCalls
  /\ network' = network \cup Fragments(peer, nextID, frame)
  /\ nextID' = nextID + 1
  /\ UNCHANGED <<frameVars, resolverVars, services, reasm, seenIDs, pc, locals, obsVars>>

\* Receive returns an error (a datagram that is no packet): log, continue
ReceiveError ==
  /\ pc = "RECEIVE"
  /\ events' = <<Ev("Error receiving data")>>
  /\ UNCHANGED <<frameVars, resolverVars, services, transportVars, pc, locals,
                 handlerCalls, newCtx, sendCalls, delivered>>

\* ReceivePending with the `continue` on nil data left out
ReceivePending_NoContinue ==
  /\ pc = "RECEIVE"
  /\ \E pkt \in network :
       LET r == TransportReceive(pkt, reasm, seenIDs)
       IN  /\ r.kind = "pending"
           /\ reasm' = r.bufs
           /\ seenIDs' = r.seen
           /\ addr' = pkt.peer
           /\ rpcID' = pkt.id
           /\ events' = IF r.dup THEN <<<<"duplicate", pkt.id>>>> ELSE <<>>
  /\ pc' = "PARSE"
  /\ UNCHANGED <<frameVars, resolverVars, services, network, nextID, data,
                 serviceName, methodName, reqHeaderBytes, rpcReq, ctx, rpcResp,
                 respPayloadBytes, respHeaderBytes, framedResp,
                 handlerCalls, newCtx, sendCalls, delivered>>

\* Receive returns no data and no error: a fragment was stored, or a
\* complete duplicate was suppressed
ReceivePending ==
  /\ pc = "RECEIVE"
  /\ \E pkt \in network :
       LET r == TransportReceive(pkt, reasm, seenIDs)
       IN  /\ r.kind = "pending"
           /\ reasm' = r.bufs
           /\ seenIDs' = r.seen
           /\ events' = IF r.dup THEN <<<<"duplicate", pkt.id>>>> ELSE <<>>
  /\ UNCHANGED <<frameVars, resolverVars, services, network, nextID, pc, locals,
                 handlerCalls, newCtx, sendCalls, delivered>>

\* Receive returns a reassembled payload with its peer address and rpc id
ReceiveData ==
  /\ pc = "RECEIVE"
  /\ \E pkt \in network :
       LET r == TransportReceive(pkt, reasm, seenIDs)
       IN  /\ r.kind = "data"
           /\ reasm' = r.bufs
           /\ seenIDs' = r.seen
           /\ data' = r.bytes
           /\ addr' = pkt.peer
           /\ rpcID' = pkt.id
           /\ delivered' = delivered \cup {[addr |-> pkt.peer, rpcID |-> pkt.id]}
           /\ events' = <<<<"received", pkt.id>>>>
  /\ pc' = "PARSE"
  /\ UNCHANGED <<frameVars, resolverVars, services, network, nextID,
                 serviceName, methodName, reqHeaderBytes, rpcReq, ctx, rpcResp,
                 respPayloadBytes, respHeaderBytes, framedResp,
                 handlerCalls, newCtx, sendCalls>>

\* parseFramedRequest(data), then the request envelope; a run-time panic
\* in the parser ends the process.  The capacity of the slice Receive
\* returned is not known: any spare capacity is tried.
ParseFrame ==
  /\ pc = "PARSE"
  /\ \E k \in Slacks :
       LET r == parseFramedRequest(MkSlice(data, k))
       IN  IF r.kind = "panic"
           THEN /\ pc' = "PANIC"
                /\ events' = Append(events, Ev("panic"))
                /\ UNCHANGED <<serviceName, methodName, reqHeaderBytes, rpcReq>>
           ELSE /\ serviceName' = r.service
                /\ methodName' = r.method
                /\ reqHeaderBytes' = r.headers
                /\ rpcReq' = [ID |-> rpcID, ServiceName |-> r.service,
                              Method |-> r.method, Payload |-> r.payload]
                /\ events' = Append(events, Ev("parsed"))
                /\ pc' = "REQ_INTERCEPT"
  /\ UNCHANGED <<frameVars, resolverVars, services, transportVars, data, addr, rpcID, ctx, rpcResp,
                 respPayloadBytes, respHeaderBytes, framedResp,
                 handlerCalls, newCtx, sendCalls, delivered>>

\* RequestIntercept with the `continue` after the error log left out
RequestIntercept_IgnoreError ==
  /\ pc = "REQ_INTERCEPT"
  /\ \E r \in ProcessRequest(rpcReq) :
       /\ events' = IF r.err
                    THEN Append(events \o r.trace, Ev("RPC element processing error"))
                    ELSE events \o r.trace
       /\ rpcReq' = r.req
       /\ pc' = "LOOKUP"
  /\ UNCHANGED <<frameVars, resolverVars, services, transportVars,
                 data, addr, rpcID, serviceName, methodName, reqHeaderBytes,
                 ctx, rpcResp, respPayloadBytes, respHeaderBytes, framedResp, newCtx,
                 handlerCalls, sendCalls, delivered>>

\* the context Start hands to ProcessRequest: context.Background()
RequestChainCtx == BackgroundCtx

\* s.rpcElementChain.ProcessRequest(context.Background(), rpcReq)
RequestIntercept ==
  /\ pc = "REQ_INTERCEPT"
  /\ \E r \in ProcessRequest(rpcReq) :
       IF r.err
       THEN /\ events' = Append(events \o r.trace, Ev("RPC element processing error"))
            /\ Continue
       ELSE /\ events' = events \o r.trace
            /\ rpcReq' = r.req
            /\ pc' = "LOOKUP"
            /\ UNCHANGED <<data, addr, rpcID, serviceName, methodName, reqHeaderBytes,
                           ctx, rpcResp, respPayloadBytes, respHeaderBytes,
                           framedResp, newCtx>>
  /\ UNCHANGED <<frameVars, resolverVars, services, transportVars,
                 handlerCalls, sendCalls, delivered>>

\* Lookup with the method check left out
Lookup_NoMethodCheck ==
  /\ pc = "LOOKUP"
  /\ IF rpcReq.ServiceName \notin DOMAIN services
     THEN /\ events' = Append(events, Ev("Unknown service"))
          /\ Continue
     ELSE /\ pc' = "DECODE"
          /\ UNCHANGED <<locals, newCtx, events>>
  /\ UNCHANGED <<frameVars, resolverVars, services, transportVars,
                 handlerCalls, sendCalls, delivered>>

\* Lookup entering an empty descriptor for a service it does not find
Lookup_AutoRegister ==
  /\ pc = "LOOKUP"
  /\ IF rpcReq.ServiceName \notin DOMAIN services
     THEN /\ services' = (rpcReq.ServiceName :> {}) @@ services
          /\ events' = Append(events, Ev("Unknown service"))
          /\ Continue
     ELSE IF rpcReq.Method \notin services[rpcReq.ServiceName]
     THEN /\ events' = Append(events, Ev("Unknown method"))
          /\ Continue
          /\ UNCHANGED services
     ELSE /\ pc' = "DECODE"
          /\ UNCHANGED <<locals, newCtx, events, services>>
  /\ UNCHANGED <<frameVars, resolverVars, transportVars,
                 handlerCalls, sendCalls, delivered>>

\* s.services[rpcReq.ServiceName], then svcDesc.Methods[rpcReq.Method]
Lookup ==
  /\ pc = "LOOKUP"
  /\ IF rpcReq.ServiceName \notin DOMAIN services
     THEN /\ events' = Append(events, Ev("Unknown service"))
          /\ Continue
     ELSE IF rpcReq.Method \notin services[rpcReq.ServiceName]
     THEN /\ events' = Append(events, Ev("Unknown method"))
          /\ Continue
     ELSE /\ pc' = "DECODE"
          /\ UNCHANGED <<locals, newCtx, events>>
  /\ UNCHANGED <<frameVars, resolverVars, services, transportVars,
                 handlerCalls, sendCalls, delivered>>

\* s.metadataCodec.DecodeHeaders(reqHeaderBytes), metadata.NewIncomingContext
DecodeRequestHeaders ==
  /\ pc = "DECODE"
  /\ LET r == DecodeHeaders(reqHeaderBytes)
     IN  IF ~r.ok
         THEN /\ events' = Append(events, Ev("Failed to decode headers"))
              /\ Continue
         ELSE /\ ctx' = NewIncomingContext(BackgroundCtx, r.md)
              /\ pc' = "INVOKE"
              /\ UNCHANGED <<data, addr, rpcID, serviceName, methodName, reqHeaderBytes,
                             rpcReq, rpcResp, respPayloadBytes, respHeaderBytes,
                             framedResp, newCtx, events>>
  /\ UNCHANGED <<frameVars, resolverVars, services, transportVars,
                 handlerCalls, sendCalls, delivered>>

\* methodDesc.Handler(svcDesc.ServiceImpl, ctx, dec) is called
InvokeHandler ==
  /\ pc = "INVOKE"
  /\ handlerCalls' = [handlerCalls EXCEPT ![rpcID] = @ + 1]
  /\ events' = Append(events, Ev("handler"))
  /\ pc' = "HANDLER"
  /\ UNCHANGED <<frameVars, resolverVars, services, transportVars, locals,
                 newCtx, sendCalls, delivered>>

\* HandlerReturn going straight to Marshal: ProcessResponse is not called
HandlerReturn_SkipResponseChain ==
  /\ pc = "HANDLER"
  /\ \E r \in HandlerResults(ctx) :
       IF r.err
       THEN /\ events' = Append(events, Ev("Handler error"))
            /\ Continue
       ELSE /\ ctx' = r.newCtx
            /\ newCtx' = r.newCtx
            /\ rpcResp' = [Result |-> r.resp, Error |-> FALSE]
            /\ pc' = "MARSHAL"
            /\ UNCHANGED <<data, addr, rpcID, serviceName, methodName, reqHeaderBytes,
                           rpcReq, respPayloadBytes, respHeaderBytes, framedResp, events>>
  /\ UNCHANGED <<frameVars, resolverVars, services, transportVars,
                 handlerCalls, sendCalls, delivered>>

\* HandlerReturn dropping the returned context (resp, _, err := ...)
HandlerReturn_KeepCtx ==
  /\ pc = "HANDLER"
  /\ \E r \in HandlerResults(ctx) :
       IF r.err
       THEN /\ events' = Append(events, Ev("Handler error"))
            /\ Continue
       ELSE /\ newCtx' = r.newCtx
            /\ rpcResp' = [Result |-> r.resp, Error |-> FALSE]
            /\ pc' = "RESP_INTERCEPT"
            /\ UNCHANGED <<data, addr, rpcID, serviceName, methodName, reqHeaderBytes,
                           rpcReq, ctx, respPayloadBytes, respHeaderBytes, framedResp,
                           events>>
  /\ UNCHANGED <<frameVars, resolverVars, services, transportVars,
                 handlerCalls, sendCalls, delivered>>

\* HandlerReturn with the `continue` after the error log left out
HandlerReturn_LogsAndGoesOn ==
  /\ pc = "HANDLER"
  /\ \E r \in HandlerResults(ctx) :
       /\ events' = IF r.err THEN Append(events, Ev("Handler error")) ELSE events
       /\ ctx' = r.newCtx
       /\ newCtx' = r.newCtx
       /\ rpcResp' = [Result |-> r.resp, Error |-> r.err]
       /\ pc' = "RESP_INTERCEPT"
  /\ UNCHANGED <<frameVars, resolverVars, services, transportVars,
                 data, addr, rpcID, serviceName, methodName, reqHeaderBytes,
                 rpcReq, respPayloadBytes, respHeaderBytes, framedResp,
                 handlerCalls, sendCalls, delivered>>

\* HandlerReturn without the error check: the error travels in the envelope
HandlerReturn_NoErrorCheck ==
  /\ pc = "HANDLER"
  /\ \E r \in HandlerResults(ctx) :
       /\ ctx' = r.newCtx
       /\ newCtx' = r.newCtx
       /\ rpcResp' = [Result |-> r.resp, Error |-> r.err]
       /\ pc' = "RESP_INTERCEPT"
  /\ UNCHANGED <<frameVars, resolverVars, services, transportVars,
                 data, addr, rpcID, serviceName, methodName, reqHeaderBytes,
                 rpcReq, respPayloadBytes, respHeaderBytes, framedResp, events,
                 handlerCalls, sendCalls, delivered>>

\* the handler returns (resp, ctx, err); the response envelope is built
HandlerReturn ==
  /\ pc = "HANDLER"
  /\ \E r \in HandlerResults(ctx) :
       IF r.err
       THEN /\ events' = Append(events, Ev("Handler error"))
            /\ Continue
       ELSE /\ ctx' = r.newCtx
            /\ newCtx' = r.newCtx
            /\ rpcResp' = [Result |-> r.resp, Error |-> r.err]
            /\ pc' = "RESP_INTERCEPT"
            /\ UNCHANGED <<data, addr, rpcID, serviceName, methodName, reqHeaderBytes,
                           rpcReq, respPayloadBytes, respHeaderBytes, framedResp, events>>
  /\ UNCHANGED <<frameVars, resolverVars, services, transportVars,
                 handlerCalls, sendCalls, delivered>>

\* s.rpcElementChain.ProcessResponse(ctx, rpcResp)
ResponseIntercept ==
  /\ pc = "RESP_INTERCEPT"
  /\ \E r \in ProcessResponse(rpcResp) :
       IF r.err
       THEN /\ events' = Append(events \o r.trace,
                                Ev("RPC element response processing error"))
            /\ Continue
       ELSE /\ events' = events \o r.trace
            /\ rpcResp' = r.resp
            /\ pc' = "MARSHAL"
            /\ UNCHANGED <<data, addr, rpcID, serviceName, methodName, reqHeaderBytes,
                           rpcReq, ctx, respPayloadBytes, respHeaderBytes,
                           framedResp, newCtx>>
  /\ UNCHANGED <<frameVars, resolverVars, services, transportVars,
                 handlerCalls, sendCalls, delivered>>

\* MarshalResponse with the `continue` after the error log left out
MarshalResponse_NoContinue ==
  /\ pc = "MARSHAL"
  /\ LET r == Marshal(rpcResp.Result)
     IN  /\ respPayloadBytes' = IF r.ok THEN r.bytes ELSE <<>>
         /\ events' = Append(events, Ev(IF r.ok THEN "marshaled"
                                        ELSE "Error marshaling response"))
         /\ pc' = "ENCODE"
  /\ UNCHANGED <<frameVars, resolverVars, services, transportVars,
                 data, addr, rpcID, serviceName, methodName, reqHeaderBytes,
                 rpcReq, ctx, rpcResp, respHeaderBytes, framedResp, newCtx,
                 handlerCalls, sendCalls, delivered>>

\* s.serializer.Marshal(rpcResp.Result)
MarshalResponse ==
  /\ pc = "MARSHAL"
  /\ LET r == Marshal(rpcResp.Result)
     IN  IF ~r.ok
         THEN /\ events' = Append(events, Ev("Error marshaling response"))
              /\ Continue
         ELSE /\ respPayloadBytes' = r.bytes
              /\ events' = Append(events, Ev("marshaled"))
              /\ pc' = "ENCODE"
              /\ UNCHANGED <<data, addr, rpcID, serviceName, methodName, reqHeaderBytes,
                             rpcReq, ctx, rpcResp, respHeaderBytes, framedResp,
                             newCtx>>
  /\ UNCHANGED <<frameVars, resolverVars, services, transportVars,
                 handlerCalls, sendCalls, delivered>>

\* metadata.FromOutgoingContext(ctx), s.metadataCodec.EncodeHeaders(respMD)
EncodeResponseHeaders ==
  /\ pc = "ENCODE"
  /\ respHeaderBytes' = EncodeHeaders(FromOutgoingContext(ctx))
  /\ pc' = "FRAME"
  /\ UNCHANGED <<frameVars, resolverVars, services, transportVars,
                 data, addr, rpcID, serviceName, methodName, reqHeaderBytes,
                 rpcReq, ctx, rpcResp, respPayloadBytes, framedResp, obsVars>>

\* frameResponse(rpcReq.ServiceName, rpcReq.Method, respHeaderBytes, respPayloadBytes)
FrameResponse ==
  /\ pc = "FRAME"
  /\ framedResp' = frameResponse(rpcReq.ServiceName, rpcReq.Method,
                                 respHeaderBytes, respPayloadBytes)
  /\ pc' = "SEND"
  /\ UNCHANGED <<frameVars, resolverVars, services, transportVars,
                 data, addr, rpcID, serviceName, methodName, reqHeaderBytes,
                 rpcReq, ctx, rpcResp, respPayloadBytes, respHeaderBytes, obsVars>>

\* SendResponse answering one fixed peer instead of the request's
SendResponse_FixedPeer ==
  /\ pc = "SEND"
  /\ sendCalls' = sendCalls \cup {[addr |-> CHOOSE p \in Peers : TRUE, rpcID |-> rpcID]}
  /\ events' = Append(events, Ev("send"))
  /\ Continue
  /\ UNCHANGED <<frameVars, resolverVars, services, transportVars,
                 handlerCalls, delivered>>

\* s.transport.Send(addr.String(), rpcID, framedResp); the loop goes round
SendResponse ==
  /\ pc = "SEND"
  /\ sendCalls' = sendCalls \cup {[addr |-> addr, rpcID |-> rpcID]}
  /\ events' = Append(events, Ev("send"))
  /\ Continue
  /\ UNCHANGED <<frameVars, resolverVars, services, transportVars,
                 handlerCalls, delivered>>

Next ==
  \/ \E d \in ServiceDescs : RegisterService(d)
  \/ StartServer
  \/ \E p \in Peers, f \in ClientFrames : ClientCall(p, f)
  \/ ReceiveError
  \/ ReceivePending
  \/ ReceiveData
  \/ ParseFrame
  \/ RequestIntercept
  \/ Lookup
  \/ DecodeRequestHeaders
  \/ InvokeHandler
  \/ HandlerReturn
  \/ ResponseIntercept
  \/ MarshalResponse
  \/ EncodeResponseHeaders
  \/ FrameResponse
  \/ SendResponse

-----------------------------------------------------------------------------
(* Resolver.ResolveUDPTarget.  A string is a sequence of one-character     *)
(* strings; an IPv4 address is a sequence of four numbers.                 *)

Digits == {"0", "1", "2", "3", "4", "5", "6", "7", "8", "9"}
DigitVal == [c \in Digits |-> CASE c = "0" -> 0 [] c = "1" -> 1 [] c = "2" -> 2
                                [] c = "3" -> 3 [] c = "4" -> 4 [] c = "5" -> 5
                                [] c = "6" -> 6 [] c = "7" -> 7 [] c = "8" -> 8
                                [] c = "9" -> 9]

\* index of the first / last c in str, 0 when there is none
IndexByte(str, c) ==
  IF \E i \in 1..Len(str) : str[i] = c
  THEN CHOOSE i \in 1..Len(str) : str[i] = c /\ \A j \in 1..(i - 1) : str[j] # c
  ELSE 0
LastIndexByte(str, c) ==
  IF \E i \in 1..Len(str) : str[i] = c
  THEN CHOOSE i \in 1..Len(str) : str[i] = c /\ \A j \in (i + 1)..Len(str) : str[j] # c
  ELSE 0

SplitErr == [err |-> TRUE, host |-> <<>>, port |-> <<>>]

\* net.SplitHostPort(hostport)
SplitHostPort(hostport) ==
  LET n == Len(hostport)
      i == LastIndexByte(hostport, ":")
      bracket == n > 0 /\ hostport[1] = "["
      end == IndexByte(hostport, "]")
      host == IF bracket THEN SubSeq(hostport, 2, end - 1)
              ELSE SubSeq(hostport, 1, i - 1)
      \* what is searched for a stray "[" and a stray "]"
      afterJ == IF bracket THEN SubSeq(hostport, 2, n) ELSE hostport
      afterK == IF bracket THEN SubSeq(hostport, end + 1, n) ELSE hostport
  IN  IF i = 0 THEN SplitErr                               \* missing port
      ELSE IF bracket /\ end = 0 THEN SplitErr             \* missing ']'
      ELSE IF bracket /\ end + 1 # i THEN SplitErr         \* missing port, too many colons
      ELSE IF ~bracket /\ IndexByte(host, ":") # 0 THEN SplitErr   \* too many colons
      ELSE IF IndexByte(afterJ, "[") # 0 THEN SplitErr     \* unexpected '['
      ELSE IF IndexByte(afterK, "]") # 0 THEN SplitErr     \* unexpected ']'
      ELSE [err |-> FALSE, host |-> host, port |-> SubSeq(hostport, i + 1, n)]

\* strings.CutPrefix(str, prefix)
CutPrefix(str, prefix) ==
  IF Len(str) >= Len(prefix) /\ SubSeq(str, 1, Len(prefix)) = prefix
  THEN [ok |-> TRUE, after |-> SubSeq(str, Len(prefix) + 1, Len(str))]
  ELSE [ok |-> FALSE, after |-> str]

RECURSIVE AtoiDigits(_, _)
AtoiDigits(str, acc) ==
  IF str = <<>> THEN acc ELSE AtoiDigits(Tail(str), acc * 10 + DigitVal[Head(str)])

\* strconv.Atoi(str), for strings of fewer than 19 characters (no value of
\* such a string is out of the range of int)
Atoi(str) ==
  LET signed == str # <<>> /\ Head(str) \in {"+", "-"}
      body == IF signed THEN Tail(str) ELSE str
  IN  IF body = <<>> \/ \E i \in 1..Len(body) : body[i] \notin Digits
      THEN [err |-> TRUE, val |-> 0]
      ELSE [err |-> FALSE,
            val |-> IF signed /\ Head(str) = "-" THEN 0 - AtoiDigits(body, 0)
                    ELSE AtoiDigits(body, 0)]

RECURSIVE SplitDots(_, _, _)
\* the fields of str between its dots
SplitDots(str, cur, acc) ==
  IF str = <<>> THEN Append(acc, cur)
  ELSE IF Head(str) = "." THEN SplitDots(Tail(str), <<>>, Append(acc, cur))
  ELSE SplitDots(Tail(str), Append(cur, Head(str)), acc)

NilIP == <<>>
IPv4zero == <<0, 0, 0, 0>>

\* net.ParseIP(host) for dotted-decimal IPv4: four fields of one to three
\* digits, no leading zero, each at most 255; nil otherwise
ParseIP(host) ==
  LET fields == SplitDots(host, <<>>, <<>>)
      okField(f) == /\ Len(f) \in 1..3
                    /\ \A i \in 1..Len(f) : f[i] \in Digits
                    /\ (Len(f) > 1 => f[1] # "0")
                    /\ AtoiDigits(f, 0) <= 255
  IN  IF Len(fields) = 4 /\ \A k \in 1..4 : okField(fields[k])
      THEN [k \in 1..4 |-> AtoiDigits(fields[k], 0)]
      ELSE NilIP

\* what net.LookupIP may answer: an error, or a list of addresses
IPa == <<10, 0, 0, 1>>
IPb == <<10, 0, 0, 2>>
LookupIP == {[err |-> TRUE, ips |-> <<>>], [err |-> FALSE, ips |-> <<>>],
             [err |-> FALSE, ips |-> <<IPa>>], [err |-> FALSE, ips |-> <<IPa, IPb>>]}

\* what r.balancer.Pick(host, ips) may return: one of ips, or nil
Pick(host, ips) == {ips[i] : i \in 1..Len(ips)} \cup {NilIP}

NoResult == [kind |-> "none"]
UDPAddr(ip, port) == [kind |-> "addr", IP |-> ip, Port |-> port]
Errorf(what) == [kind |-> "error", msg |-> what]

ResolverIdle ==
  rpc = "idle" /\ raddr = <<>> /\ rresult = NoResult /\ rlookups = <<>> /\ rpicks = <<>>

\* the FQDN case taking the first resolved address, whatever the balancer
\* picked
ResolveFQDN_FirstIP(host, port) ==
  \E l \in LookupIP :
     /\ rlookups' = Append(rlookups, [host |-> host, err |-> l.err, ips |-> l.ips])
     /\ IF l.err \/ Len(l.ips) = 0
        THEN /\ rresult' = Errorf("DNS lookup failed")
             /\ UNCHANGED rpicks
        ELSE \E chosen \in Pick(host, l.ips) :
               /\ rpicks' = Append(rpicks, [host |-> host, ips |-> l.ips, chosen |-> chosen])
               /\ rresult' = UDPAddr(l.ips[1], port)

\* the FQDN case: net.LookupIP, then r.balancer.Pick
ResolveFQDN(host, port) ==
  \E l \in LookupIP :
     /\ rlookups' = Append(rlookups, [host |-> host, err |-> l.err, ips |-> l.ips])
     /\ IF l.err \/ Len(l.ips) = 0
        THEN /\ rresult' = Errorf("DNS lookup failed")
             /\ UNCHANGED rpicks
        ELSE \E chosen \in Pick(host, l.ips) :
               /\ rpicks' = Append(rpicks, [host |-> host, ips |-> l.ips, chosen |-> chosen])
               /\ rresult' = IF chosen = NilIP
                             THEN Errorf("balancer failed to select an IP")
                             ELSE UDPAddr(chosen, port)

\* ResolveUDPTarget without the `if host == ""` return
ResolveUDPTarget_NoBindForm ==
  /\ rpc = "call"
  /\ rpc' = "done"
  /\ IF raddr = <<>>
     THEN rresult' = UDPAddr(IPv4zero, 0) /\ UNCHANGED <<rlookups, rpicks>>
     ELSE
       LET split == SplitHostPort(raddr)
           cut == CutPrefix(raddr, <<":">>)
           host == IF split.err THEN <<>> ELSE split.host
           portStr == IF split.err THEN cut.after ELSE split.port
           port == Atoi(portStr)
       IN  IF split.err /\ ~cut.ok
           THEN rresult' = Errorf("invalid addr") /\ UNCHANGED <<rlookups, rpicks>>
           ELSE IF port.err
           THEN rresult' = Errorf("invalid port") /\ UNCHANGED <<rlookups, rpicks>>
           ELSE IF ParseIP(host) # NilIP
           THEN rresult' = UDPAddr(ParseIP(host), port.val)
                  /\ UNCHANGED <<rlookups, rpicks>>
           ELSE ResolveFQDN(host, port.val)
  /\ UNCHANGED <<raddr, frameVars, serverVars>>

\* r.ResolveUDPTarget(addr)
ResolveUDPTarget ==
  /\ rpc = "call"
  /\ rpc' = "done"
  /\ IF raddr = <<>>
     THEN rresult' = UDPAddr(IPv4zero, 0) /\ UNCHANGED <<rlookups, rpicks>>
     ELSE
       LET split == SplitHostPort(raddr)
           cut == CutPrefix(raddr, <<":">>)
           host == IF split.err THEN <<>> ELSE split.host
           portStr == IF split.err THEN cut.after ELSE split.port
           port == Atoi(portStr)
       IN  IF split.err /\ ~cut.ok
           THEN rresult' = Errorf("invalid addr") /\ UNCHANGED <<rlookups, rpicks>>
           ELSE IF port.err
           THEN rresult' = Errorf("invalid port") /\ UNCHANGED <<rlookups, rpicks>>
           ELSE IF host = <<>>
           THEN rresult' = UDPAddr(IPv4zero, port.val) /\ UNCHANGED <<rlookups, rpicks>>
           ELSE IF ParseIP(host) # NilIP
           THEN rresult' = UDPAddr(ParseIP(host), port.val)
                  /\ UNCHANGED <<rlookups, rpicks>>
           ELSE ResolveFQDN(host, port.val)
  /\ UNCHANGED <<raddr, frameVars, serverVars>>

\* the address strings handed to ResolveUDPTarget
PortDigits == {"0", "7", "9"}
DigitStrs == UNION {[1..n -> PortDigits] : n \in 0..MaxPortDigits}
PortStrs == DigitStrs \cup {<<"+", "7">>, <<"-", "7">>, <<"x">>}
Hosts == {<<>>, <<"1", ".", "2", ".", "3", ".", "4">>,
          <<"2", "5", "6", ".", "1", ".", "1", ".", "1">>, <<"a">>, <<"[", "a", "]">>}
Addrs ==
  {h \o <<":">> \o q : h \in Hosts, q \in PortStrs}
    \cup {<<>>, <<"a">>, <<"7">>, <<":", "7", ":", "9">>, <<"a", ":", "7", ":", "9">>,
          <<"[", "a", ":", "7">>, <<"[", "a", "]", "7", ":", "9">>, <<"a", "]", ":", "7">>}

-----------------------------------------------------------------------------
(* The frame codec on its own: frame a tuple and parse it back, or parse *)
(* an arbitrary buffer.                                                  *)

\* a field handed to frameResponse: the bytes head followed by pad bytes 1
Field(head, pad) == [head |-> head, pad |-> pad]
Expand(f) == f.head \o [i \in 1..f.pad |-> 1]
FieldLen(f) == Len(f.head) + f.pad
NoField == Field(<<>>, 0)

FieldBytes == {1, 2}
ShortFields == {Field(h, 0) : h \in UNION {[1..n -> FieldBytes] : n \in 0..MaxFieldLen}}
\* fields around the limit of the 16-bit length prefix
LongFields == {Field(<<>>, U16 - 1), Field(<<>>, U16), Field(<<>>, U16 + 1)}

NoInput == [service |-> NoField, method |-> NoField, headers |-> NoField, payload |-> NoField]
NoOutput == [kind |-> "none"]

\* the tuples handed to frameResponse: all short tuples, and the tuples with
\* one long field
FrameInputs ==
  [service : ShortFields, method : ShortFields,
   headers : ShortFields, payload : ShortFields]
  \cup {[NoInput EXCEPT !.service = f] : f \in LongFields}
  \cup {[NoInput EXCEPT !.method = f] : f \in LongFields}
  \cup {[NoInput EXCEPT !.headers = f] : f \in LongFields}
  \cup {[NoInput EXCEPT !.payload = f] : f \in LongFields}

RawBytes == {0, 1, 2}
RawBuffers == UNION {[1..n -> RawBytes] : n \in 0..MaxRawLen}

FrameIdle == fpc = "idle" /\ fin = NoInput /\ fbuf = NoSlice /\ fout = NoOutput

FrameInit ==
  /\ ServerInit
  /\ ResolverIdle
  /\ fout = NoOutput
  /\ \/ /\ fpc = "frame"
        /\ fin \in FrameInputs
        /\ fbuf = NoSlice
     \/ /\ fpc = "parse"
        /\ fin = NoInput
        /\ \E b \in RawBuffers, k \in Slacks : fbuf = MkSlice(b, k)

\* parseFramedRequest(frameResponse(service, method, headers, payload));
\* buf.Bytes() may have spare capacity.  fout records what the parse did,
\* whether it returned the four arguments, and the lengths it returned.
FrameThenParse ==
  /\ fpc = "frame"
  /\ \E k \in Slacks :
       LET service == Expand(fin.service)
           method == Expand(fin.method)
           headers == Expand(fin.headers)
           payload == Expand(fin.payload)
           out == parseFramedRequest(MkSlice(frameResponse(service, method, headers, payload), k))
       IN  fout' = IF out.kind = "ok"
                   THEN [kind |-> "ok",
                         same |-> /\ out.service = service
                                  /\ out.method = method
                                  /\ out.headers = headers
                                  /\ out.payload = payload,
                         lens |-> <<Len(out.service), Len(out.method),
                                    Len(out.headers), Len(out.payload)>>]
                   ELSE [kind |-> out.kind, same |-> FALSE, lens |-> <<>>]
  /\ fpc' = "roundtrip"
  /\ UNCHANGED <<fin, fbuf, serverVars, resolverVars>>

\* parseFramedRequest(data) of a buffer from the network
DoParse ==
  /\ fpc = "parse"
  /\ fout' = parseFramedRequest(fbuf)
  /\ fpc' = "parsed"
  /\ UNCHANGED <<fin, fbuf, serverVars, resolverVars>>

FrameNext == FrameThenParse \/ DoParse

SpecFrame == FrameInit /\ [][FrameNext]_vars

ResolveInit ==
  /\ ServerInit
  /\ FrameIdle
  /\ rpc = "call"
  /\ raddr \in Addrs
  /\ rresult = NoResult
  /\ rlookups = <<>>
  /\ rpicks = <<>>

ResolveNext == ResolveUDPTarget

SpecResolve == ResolveInit /\ [][ResolveNext]_vars

Init == ServerInit /\ FrameIdle /\ ResolverIdle

Spec == Init /\ [][Next]_vars

-----------------------------------------------------------------------------
(* Properties of Server.Start (Spec) *)

Range(f) == {f[i] : i \in DOMAIN f}
Kinds(evs) == {e[1] : e \in Range(evs)}

\* the calls among the events of an iteration: interceptors, handler, Send
IsCall(e) == e[1] \in {"request", "handler", "response", "send"}
Calls(evs) == SelectSeq(evs, IsCall)

\* the rpc id of the request the events belong to (0: none was received)
EventID == IF events # <<>> /\ events[1][1] = "received" THEN events[1][2] ELSE 0

\* no handler was invoked and nothing was sent for the request of `events`
NothingDone ==
  /\ "handler" \notin Kinds(events)
  /\ "send" \notin Kinds(events)
  /\ EventID \in RpcIDs => /\ handlerCalls[EventID] = 0
                           /\ \A c \in sendCalls : c.rpcID # EventID

C4_LoopNeverTerminates == pc # "PANIC"

\* C5: when a response is sent, the calls of that iteration were, in order,
\* the request interceptors 1..n, the handler, the response interceptors
\* n..1, and then Send.
C5_InterceptorOrder ==
  "send" \in Kinds(events) =>
     Calls(events) = ReqTrace(NumElements) \o <<Ev("handler")>>
                       \o RespTrace(1) \o <<Ev("send")>>

C5_Witness == pc = "RECEIVE" /\ "send" \in Kinds(events) /\ Len(Calls(events)) > 2

\* C6: the handler is invoked with the bag decoded from the header bytes of
\* the request frame as incoming metadata, and the header bytes of the
\* response frame encode the outgoing metadata of the context the handler
\* returned.
C6_MetadataPropagation ==
  /\ pc = "HANDLER" =>
       LET f == parseFramedRequest(MkSlice(data, <<>>))
       IN  /\ f.kind = "ok"
           /\ DecodeHeaders(f.headers).ok
           /\ ctx.incoming = DecodeHeaders(f.headers).md
  /\ pc = "SEND" =>
       LET f == parseFramedRequest(MkSlice(framedResp, <<>>))
       IN  /\ f.kind = "ok"
           /\ f.headers = EncodeHeaders(newCtx.outgoing)
           /\ DecodeHeaders(f.headers).ok
           /\ DecodeHeaders(f.headers).md = newCtx.outgoing

C6_Witness ==
  /\ pc = "SEND"
  /\ newCtx.incoming = MDa
  /\ newCtx.outgoing = MDb

\* C7: every call of Send names a peer address and rpc id that Receive
\* delivered together, and that a client of that address used.
C7_ResponseToOrigin ==
  \A c \in sendCalls :
     /\ c \in delivered
     /\ \E pkt \in network : pkt.peer = c.addr /\ pkt.id = c.rpcID

\* two requests of different peers have been answered
C7_Witness ==
  \E a, b \in sendCalls : a.addr # b.addr /\ a.rpcID # b.rpcID

C9_InterceptorShortCircuit ==
  "RPC element processing error" \in Kinds(events) => (pc = "RECEIVE" /\ NothingDone)

C9_Witness ==
  /\ "RPC element processing error" \in Kinds(events)
  /\ <<"request", 2>> \in Range(events)
  /\ <<"request", 3>> \notin Range(events)

\* a request is being dispatched (the loop body is past Receive)
Dispatching == pc \notin {"SETUP", "RECEIVE"}

\* the lines the server logs when it abandons a request, and the panic
ErrorMarkers ==
  {"RPC element processing error", "Unknown service", "Unknown method",
   "Failed to decode headers", "Handler error",
   "RPC element response processing error", "Error marshaling response", "panic"}

IsSend(e) == e = Ev("send")
Sends == Len(SelectSeq(events, IsSend))

\* C12: a request interceptor runs only after LOOKUP and DECODE_HEADERS: when
\* the request chain has run for a request, the service and method named in
\* the request frame are registered, the header bytes decode, and the context
\* handed to the chain carries the decoded bag as incoming metadata.
C12_LookupDecodeBeforeIntercept ==
  (pc \in {"LOOKUP", "DECODE", "INVOKE", "HANDLER"} /\ "request" \in Kinds(events)) =>
     /\ serviceName \in DOMAIN services
     /\ methodName \in services[serviceName]
     /\ DecodeHeaders(reqHeaderBytes).ok
     /\ RequestChainCtx.incoming = DecodeHeaders(reqHeaderBytes).md

\* C13: the service and method names of a response frame are the names
\* decoded from the request frame, also when a request interceptor rewrote
\* the names of the envelope.
C13_ResponseNamesOriginal ==
  pc = "SEND" =>
     LET f == parseFramedRequest(MkSlice(framedResp, <<>>))
     IN  /\ f.kind = "ok"
         /\ f.service = serviceName
         /\ f.method = methodName

\* C14: when the handler returns an error the request is dropped there: the
\* error line is the last of the iteration, right after the handler call; no
\* response interceptor ran, nothing was marshalled, nothing was sent.
C14_HandlerErrorDropped ==
  "Handler error" \in Kinds(events) =>
     /\ pc = "RECEIVE"
     /\ Len(events) >= 2
     /\ events[Len(events)] = Ev("Handler error")
     /\ events[Len(events) - 1] = Ev("handler")
     /\ Kinds(events) \cap {"response", "marshaled", "send"} = {}
     /\ EventID \in RpcIDs
     /\ \A c \in sendCalls : c.rpcID # EventID

C14_Witness ==
  /\ "Handler error" \in Kinds(events)
  /\ EventID \in RpcIDs
  /\ handlerCalls[EventID] = 1
  /\ sendCalls = {}

\* C15: a receive that returns no data (a fragment stored, a duplicate
\* suppressed) or an error leaves the loop at Receive with nothing parsed,
\* intercepted, invoked or sent; a request is dispatched only after a receive
\* that delivered the complete payload of its fragment set.
C15_OnlyCompleteDispatched ==
  /\ (events = <<>> \/ events[1][1] # "received") =>
        /\ ~Dispatching
        /\ Len(events) <= 1
        /\ data = <<>> /\ rpcID = 0
  /\ Dispatching =>
        /\ events[1] = <<"received", rpcID>>
        /\ [addr |-> addr, rpcID |-> rpcID] \in delivered
        /\ data # <<>>
        /\ Fragments(addr, rpcID, data) \subseteq network

\* a fragment was stored and the loop is back at Receive
C15_Witness ==
  /\ pc = "RECEIVE"
  /\ events = <<>>
  /\ reasm # NoBuffers
  /\ seenIDs # {}

\* C16: while a handler has been invoked and has not returned, the server
\* can receive the datagrams that are waiting.
C16_ReceiveDuringHandler ==
  (pc = "HANDLER" /\ network # {}) => ENABLED (ReceivePending \/ ReceiveData)

\* C17: Send is called at most once for a delivered request: exactly once
\* when the iteration ends without an error, and not at all when a step
\* failed.
C17_SendOncePerRequest ==
  /\ Sends <= 1
  /\ pc = "PANIC" => Sends = 0
  /\ (pc = "RECEIVE" /\ EventID \in RpcIDs) =>
        IF Kinds(events) \cap ErrorMarkers = {}
        THEN /\ Sends = 1
             /\ events[Len(events)] = Ev("send")
             /\ \E c \in sendCalls : c.rpcID = EventID
        ELSE /\ Sends = 0
             /\ \A c \in sendCalls : c.rpcID # EventID

\* marshalling failed after the handler and the response chain ran
C17_Witness ==
  /\ pc = "RECEIVE"
  /\ "Error marshaling response" \in Kinds(events)
  /\ <<"response", 1>> \in Range(events)
  /\ Sends = 0

\* C18: no step of Start changes the services map; it changes only by
\* RegisterService, before Start.
C18_RegistryReadOnly ==
  [][/\ pc # "SETUP" => services' = services
     /\ services' # services =>
          \E d \in ServiceDescs : services' = (d.ServiceName :> d.Methods) @@ services]_vars

\* requests were answered and refused, the registry as registered
C18_Witness ==
  /\ pc = "RECEIVE"
  /\ services = (SvcEcho :> {MSay})
  /\ sendCalls # {}
  /\ "Unknown service" \in Kinds(events)

\* C19: the response the response chain is invoked with has a nil Error, and
\* no response interceptor runs in an iteration in which the handler failed.
C19_NoErrorInResponseChain ==
  /\ pc = "RESP_INTERCEPT" => rpcResp.Error = FALSE
  /\ "response" \in Kinds(events) => "Handler error" \notin Kinds(events)

C19_Witness ==
  /\ pc = "RESP_INTERCEPT"
  /\ rpcResp = [Result |-> 7, Error |-> FALSE]
  /\ events[Len(events)] = Ev("handler")

-----------------------------------------------------------------------------
(* Properties of the frame codec (SpecFrame) *)

\* parseFramedRequest returned exactly the tuple that was framed
ParsedBack == fout.kind = "ok" /\ fout.same

\* C2 as stated: parsing a frame built by frameResponse returns exactly the
\* framed service, method, headers and payload, whatever their lengths,
\* also at and beyond the limit of the 16-bit length prefix.
C2_RoundTripAnyLength == fpc = "roundtrip" => ParsedBack

\* C2: parsing a frame built by frameResponse returns exactly the framed
\* service, method, headers and payload whenever service, method and
\* headers are each at most 65535 bytes long (the payload has any length).
C2_RoundTrip ==
  (/\ fpc = "roundtrip"
   /\ FieldLen(fin.service) < U16
   /\ FieldLen(fin.method) < U16
   /\ FieldLen(fin.headers) < U16) => ParsedBack

\* a field of exactly 65535 bytes went through the round trip
C2_Witness ==
  /\ fpc = "roundtrip"
  /\ FieldLen(fin.headers) = U16 - 1
  /\ ParsedBack
  /\ fout.lens = <<0, 0, U16 - 1, 0>>

\* a length prefix, or the field it announces, extends past the end of b
RunsPastEnd(b) ==
  LET n  == Len(b)
      l1 == Uint16(SubSeq(b, 1, 2))
      o2 == 2 + l1
      l2 == Uint16(SubSeq(b, o2 + 1, o2 + 2))
      o3 == o2 + 2 + l2
      l3 == Uint16(SubSeq(b, o3 + 1, o3 + 2))
  IN  \/ n < 2
      \/ n < o2 + 2
      \/ n < o3 + 2
      \/ n < o3 + 2 + l3

\* C3: for a buffer in which a length prefix or the field it announces
\* extends past the end of the buffer (the empty buffer included),
\* parseFramedRequest returns a MalformedFrame error.
C3_TruncatedIsError ==
  (fpc = "parsed" /\ RunsPastEnd(Bytes(fbuf))) => fout.kind = "error"

-----------------------------------------------------------------------------
(* Properties of ResolveUDPTarget (SpecResolve) *)

\* the number a string of decimal digits denotes
RECURSIVE Pow10(_)
Pow10(k) == IF k = 0 THEN 1 ELSE 10 * Pow10(k - 1)
RECURSIVE DecimalValue(_)
DecimalValue(str) ==
  IF str = <<>> THEN 0
  ELSE DigitVal[Head(str)] * Pow10(Len(str) - 1) + DecimalValue(Tail(str))

\* ":<port>" with a port of decimal digits
IsBindForm(a) ==
  /\ Len(a) >= 2
  /\ a[1] = ":"
  /\ \A i \in 2..Len(a) : a[i] \in Digits

\* C10: for the empty address and for ":<port>" with a port of decimal
\* digits, ResolveUDPTarget returns the address 0.0.0.0 with that port (0 for
\* the empty address) and no error, and calls neither net.LookupIP nor the
\* balancer.
C10_BindForm ==
  (rpc = "done" /\ (raddr = <<>> \/ IsBindForm(raddr))) =>
     /\ rresult = UDPAddr(IPv4zero, IF raddr = <<>> THEN 0 ELSE DecimalValue(Tail(raddr)))
     /\ rlookups = <<>>
     /\ rpicks = <<>>

\* ":7090" was resolved
C10_Witness ==
  /\ rpc = "done"
  /\ raddr = <<":", "7", "0", "9", "0">>
  /\ rresult = UDPAddr(<<0, 0, 0, 0>>, 7090)

\* literal and name-based hosts of the addresses resolved, with the address
\* a literal denotes
LiteralHosts == {<<"1", ".", "2", ".", "3", ".", "4">>}
LiteralIP(h) == <<1, 2, 3, 4>>
NameHosts == {<<"a">>, <<"2", "5", "6", ".", "1", ".", "1", ".", "1">>}

\* a is h, a colon, and a port of decimal digits
IsHostPort(a, h) ==
  /\ Len(a) > Len(h) + 1
  /\ SubSeq(a, 1, Len(h)) = h
  /\ a[Len(h) + 1] = ":"
  /\ \A i \in (Len(h) + 2)..Len(a) : a[i] \in Digits
PortOf(a, h) == DecimalValue(SubSeq(a, Len(h) + 2, Len(a)))

\* C11: for a literal "ip:port" ResolveUDPTarget returns exactly that IP and
\* port and calls neither the lookup nor the balancer; for a name-based
\* "host:port" it looks the host up once, and returns an error and no address
\* when the lookup fails, returns no IPs, or the balancer picks nothing, and
\* otherwise the IP the balancer picked among the resolved IPs with the given
\* port.
C11_Selection ==
  rpc = "done" =>
    /\ \A h \in LiteralHosts :
         IsHostPort(raddr, h) =>
           /\ rresult = UDPAddr(LiteralIP(h), PortOf(raddr, h))
           /\ rlookups = <<>>
           /\ rpicks = <<>>
    /\ \A h \in NameHosts :
         IsHostPort(raddr, h) =>
           /\ Len(rlookups) = 1
           /\ rlookups[1].host = h
           /\ IF rlookups[1].err \/ rlookups[1].ips = <<>>
              THEN rresult.kind = "error" /\ rpicks = <<>>
              ELSE /\ Len(rpicks) = 1
                   /\ rpicks[1].host = h
                   /\ rpicks[1].ips = rlookups[1].ips
                   /\ IF rpicks[1].chosen = NilIP
                      THEN rresult.kind = "error"
                      ELSE /\ rpicks[1].chosen \in Range(rpicks[1].ips)
                           /\ rresult = UDPAddr(rpicks[1].chosen, PortOf(raddr, h))

\* the balancer picked the second of two resolved addresses
C11_Witness ==
  /\ rpc = "done"
  /\ raddr = <<"a", ":", "7", "0">>
  /\ Len(rpicks) = 1
  /\ rpicks[1].ips = <<IPa, IPb>>
  /\ rresult = UDPAddr(IPb, 70)

\* C20: an address returned without error has a port within 0..65535 (a port
\* string that denotes a number outside that range gives an error).
C20_PortInRange ==
  (rpc = "done" /\ rresult.kind = "addr") => rresult.Port \in 0..65535

====
